---- MODULE Spec2Model ----
(***************************************************************************)
(* The speech playback controller of src/hooks/useSpeechPlayer.ts, a React *)
(* hook.  The React state (useState), the refs (useRef), the Web Audio     *)
(* source nodes the hook has started, the synthesis requests in flight and *)
(* the invocations suspended at `await ctx.resume()` are the state; every  *)
(* event handler, promise continuation and platform callback is one       *)
(* action.  A handler runs to completion with the render and the effects   *)
(* that its state updates trigger.                                         *)
(*                                                                         *)
(* Time is the audio clock (ctx.currentTime) in whole seconds.  Rates and  *)
(* buffer positions of a source node are in halves: rate 2 is 1.0, and a   *)
(* node advances by `rate` half-seconds of buffer per second of clock.     *)
(*                                                                         *)
(* Two more parts of the application stand beside the hook, each with its  *)
(* own variables and its own specification: the decoding of a PCM payload  *)
(* (pcmToAudioBuffer) as a function of its bytes, and the image list of    *)
(* src/components/ImageUploader.tsx with its asynchronous file reads.      *)
(***************************************************************************)
EXTENDS Integers, Sequences, FiniteSets, TLC

VARIABLES
    mounted,          \* the component that uses the hook is mounted
    text,             \* the `text` argument of the hook (current source text)
    isPlayingAudio,   \* useState, line 5
    isAudioLoading,   \* useState, line 6
    isAudioPrepared,  \* useState, line 7
    audioBuffer,      \* useState, line 8: None or the text it was decoded from
    playbackRate,     \* useState, line 9
    isRepeat,         \* useState, line 10
    isAudioError,     \* useState, line 11
    audioContextRef,  \* useRef, line 13: TRUE when it holds a context
    ctxState,         \* ctx.state: none (no context), suspended, running, closed
    sourceNodeRef,    \* useRef, line 14: 0 (null) or the id of a source node
    startTimeRef,     \* useRef, line 15
    startOffsetRef,   \* useRef, line 16: the playback position
    now,              \* ctx.currentTime
    sessions,         \* the source nodes: id -> [status, buf, pos, rate, loop];
                      \* status is free, playing, finished (played to the end)
                      \* or stopped; a finished or stopped node has its
                      \* `ended` event still to deliver
    inflight,         \* generateSpeech calls not yet settled: text -> count
    waiters,          \* continuations suspended at `await ctx.resume()`, in call order
    last,             \* history: the call that produced this state
    pcm,              \* the bytes handed to pcmToAudioBuffer
    decoded,          \* what pcmToAudioBuffer made of them, once it has run
    images,           \* App's useState `images`, the prop of ImageUploader
    reading,          \* processFiles calls suspended at `await Promise.all(...)`
    added,            \* history: the images a processFiles call has handed on
    removed           \* history: the images handleRemove has taken out

vars == <<mounted, text, isPlayingAudio, isAudioLoading, isAudioPrepared,
          audioBuffer, playbackRate, isRepeat, isAudioError, audioContextRef,
          ctxState, sourceNodeRef, startTimeRef, startOffsetRef, now, sessions,
          inflight, waiters, last, pcm, decoded, images, reading, added, removed>>

decoderVars == <<pcm, decoded>>
uploaderVars == <<images, reading, added, removed>>

----------------------------------------------------------------------------
(* Bounds of the model *)

MaxTime == 2        \* the audio clock stops advancing here
MaxSessions == 2    \* source nodes that exist at once (playing or ended, undelivered)
MaxInFlight == 2    \* synthesis calls in flight at once
MaxWaiters == 2     \* continuations suspended at ctx.resume() at once

(* Program constants *)

InitialRate == 2    \* useState(1.0), in halves
MinRate == 1        \* 0.5, the least rate the slower button passes
MaxRate == 3        \* 1.5, the greatest rate the faster button passes

None == "none"
NoNode == 0
Texts == {"A", "B"}          \* non-empty source texts
Rates == {2, 3}              \* 1.0 and 1.5, two of the rates the speed buttons pass
AllRates == 0..4             \* the rates a caller of setSpeed can pass: 0.0 to 2.0
Payloads == {"pcm", "malformed"}
\* what the audio sink does when a source is created, connected and started
Sinks == {"ok", "fails"}

Min(a, b) == IF a < b THEN a ELSE b

\* audioBuffer.duration, in seconds, of the clip synthesized for a text
Duration(t) == IF t = "A" THEN 2 ELSE 1

Ids == 1..MaxSessions
\* a slot without a node, and a node that has halted: of a halted node only the
\* `ended` event that is still to be delivered matters
FreeNode == [status |-> "free", buf |-> None, pos |-> 0, rate |-> InitialRate, loop |-> FALSE]
StoppedNode == [FreeNode EXCEPT !.status = "stopped"]
FinishedNode == [FreeNode EXCEPT !.status = "finished"]

----------------------------------------------------------------------------
(* The hook as a record, so that handlers compose as functions *)

W == [mounted |-> mounted, text |-> text, isPlayingAudio |-> isPlayingAudio,
      isAudioLoading |-> isAudioLoading, isAudioPrepared |-> isAudioPrepared,
      audioBuffer |-> audioBuffer, playbackRate |-> playbackRate,
      isRepeat |-> isRepeat, isAudioError |-> isAudioError,
      audioContextRef |-> audioContextRef, ctxState |-> ctxState,
      sourceNodeRef |-> sourceNodeRef, startTimeRef |-> startTimeRef,
      startOffsetRef |-> startOffsetRef, now |-> now, sessions |-> sessions,
      inflight |-> inflight, waiters |-> waiters, ovf |-> FALSE,
      newBuf |-> FALSE]

\* A looping node that sourceNodeRef no longer references plays on for ever, and
\* the hook has no way left to reach it: where it is in the clip and how fast it
\* plays cannot matter any more, and are not kept
Unreachable(r, i) ==
    r.sessions[i].status = "playing" /\ r.sessions[i].loop /\ r.sourceNodeRef # i

Canon(r) ==
    [i \in DOMAIN r.sessions |->
        IF Unreachable(r, i)
        THEN [r.sessions[i] EXCEPT !.pos = 0, !.rate = InitialRate]
        ELSE r.sessions[i]]

Commit(r) ==
    /\ ~r.ovf
    /\ mounted' = r.mounted
    /\ text' = r.text
    /\ isPlayingAudio' = r.isPlayingAudio
    /\ isAudioLoading' = r.isAudioLoading
    /\ isAudioPrepared' = r.isAudioPrepared
    /\ audioBuffer' = r.audioBuffer
    /\ playbackRate' = r.playbackRate
    /\ isRepeat' = r.isRepeat
    /\ isAudioError' = r.isAudioError
    /\ audioContextRef' = r.audioContextRef
    /\ ctxState' = r.ctxState
    /\ sourceNodeRef' = r.sourceNodeRef
    /\ startTimeRef' = r.startTimeRef
    /\ startOffsetRef' = r.startOffsetRef
    /\ now' = r.now
    /\ sessions' = Canon(r)
    /\ inflight' = r.inflight
    /\ waiters' = r.waiters
    /\ UNCHANGED <<decoderVars, uploaderVars>>

\* the values a handler closes over: those of the render that created it
Closure(w) == [isPlayingAudio |-> w.isPlayingAudio, audioBuffer |-> w.audioBuffer,
               playbackRate |-> w.playbackRate, isRepeat |-> w.isRepeat]

\* the closure of the first render, which the unmount cleanup keeps
FirstRender == [isPlayingAudio |-> FALSE, audioBuffer |-> None,
                playbackRate |-> InitialRate, isRepeat |-> TRUE]

\* a state setter: React drops updates of an unmounted component
SetIsPlayingAudio(w, v) == IF w.mounted THEN [w EXCEPT !.isPlayingAudio = v] ELSE w
SetIsAudioLoading(w, v) == IF w.mounted THEN [w EXCEPT !.isAudioLoading = v] ELSE w
SetIsAudioPrepared(w, v) == IF w.mounted THEN [w EXCEPT !.isAudioPrepared = v] ELSE w
SetAudioBuffer(w, v) == IF w.mounted THEN [w EXCEPT !.audioBuffer = v] ELSE w
SetIsAudioError(w, v) == IF w.mounted THEN [w EXCEPT !.isAudioError = v] ELSE w

----------------------------------------------------------------------------
(* Web Audio source nodes *)

\* source.stop(); source.disconnect(): a playing node halts and its `ended`
\* event is queued; on a node that already ended nothing happens
NodeStop(ss, id) ==
    IF ss[id].status = "playing" THEN [ss EXCEPT ![id] = StoppedNode] ELSE ss

\* an assignment to source.loop or source.playbackRate.value
NodeSet(s, field, v) == IF s.status = "playing" THEN [s EXCEPT ![field] = v] ELSE s

Playing(ss) == {i \in Ids : ss[i].status = "playing"}
FreeIds(ss) == {i \in Ids : ss[i].status = "free"}
LowestFree(ss) == CHOOSE i \in FreeIds(ss) : \A j \in FreeIds(ss) : i <= j

----------------------------------------------------------------------------
(* The handlers of the hook *)

\* stopAudio, lines 46-63; cl is the closure of the render that made it
stopAudio(w, cl) ==
    LET w1 == IF w.sourceNodeRef # NoNode
              THEN LET elapsed == w.now - w.startTimeRef
                       newOffset == w.startOffsetRef + elapsed
                       off == IF w.audioContextRef /\ cl.audioBuffer # None
                                 /\ cl.isPlayingAudio
                              THEN Min(newOffset, Duration(cl.audioBuffer))
                              ELSE w.startOffsetRef
                   IN [w EXCEPT !.startOffsetRef = off,
                                !.sessions = NodeStop(w.sessions, w.sourceNodeRef),
                                !.sourceNodeRef = NoNode]
              ELSE w
    IN SetIsPlayingAudio(w1, FALSE)

\* lines 75-87 and 113-127: createBufferSource, start(0, offset), keep the node
StartSource(w, cl, offset) ==
    IF FreeIds(w.sessions) = {} THEN [w EXCEPT !.ovf = TRUE]
    ELSE LET id == LowestFree(w.sessions)
             w1 == [w EXCEPT !.sessions[id] =
                                 [status |-> "playing", buf |-> cl.audioBuffer,
                                  pos |-> 2 * offset, rate |-> cl.playbackRate,
                                  loop |-> cl.isRepeat],
                             !.startTimeRef = w.now,
                             !.sourceNodeRef = id]
         IN SetIsPlayingAudio(w1, TRUE)

\* `await ctx.resume()` on a suspended context: the rest of the function waits
Await(w, k) ==
    IF Len(w.waiters) >= MaxWaiters THEN [w EXCEPT !.ovf = TRUE]
    ELSE [w EXCEPT !.waiters = Append(@, k)]

Waiter(kind, cl, payload) ==
    [kind |-> kind, buf |-> cl.audioBuffer, rate |-> cl.playbackRate,
     loop |-> cl.isRepeat, payload |-> payload]

\* a catch block that takes a sink failure for a failed load
SinkFailedAsLoadError(w) == SetIsAudioError(SetIsPlayingAudio(w, FALSE), TRUE)

\* the catch blocks, lines 88-102 and 128-142: not playing, and an alert
SinkFailed(w) == SetIsPlayingAudio(w, FALSE)

\* playFromStart after the await, lines 75-87
PlayContinue(w, cl, sink) ==
    IF sink = "ok" THEN StartSource(w, cl, 0) ELSE SinkFailed(w)

\* resumeAudio after the await, lines 113-127
ResumeOffset(w, cl) == Min(w.startOffsetRef, Duration(cl.audioBuffer))
ResumeContinue(w, cl, sink) ==
    IF sink = "ok" THEN StartSource(w, cl, ResumeOffset(w, cl)) ELSE SinkFailed(w)

\* the guard without its isPlayingAudio test
TransportGuardIgnoresPlaying(w) == w.audioBuffer # None /\ w.audioContextRef

\* the guard of playFromStart and resumeAudio, lines 67 and 107
TransportGuard(w) == ~w.isPlayingAudio /\ w.audioBuffer # None /\ w.audioContextRef

\* playFromStart, lines 66-103, up to the await
playFromStart(w, sink) ==
    LET cl == Closure(w) IN
    IF ~TransportGuard(w) THEN w
    ELSE LET w1 == [stopAudio(w, cl) EXCEPT !.startOffsetRef = 0]
         IN IF w1.ctxState = "suspended"
            THEN Await(w1, Waiter("play", cl, None))
            ELSE PlayContinue(w1, cl, sink)

\* resumeAudio, lines 106-143, up to the await
resumeAudio(w, sink) ==
    LET cl == Closure(w) IN
    IF ~TransportGuard(w) THEN w
    ELSE IF w.ctxState = "suspended"
         THEN Await(w, Waiter("resume", cl, None))
         ELSE ResumeContinue(w, cl, sink)

\* setSpeed, lines 209-215
setSpeed(w, rate) ==
    LET w1 == IF w.mounted THEN [w EXCEPT !.playbackRate = rate] ELSE w
    IN IF w1.sourceNodeRef # NoNode
       THEN [w1 EXCEPT !.sessions[w1.sourceNodeRef] = NodeSet(@, "rate", rate)]
       ELSE w1

\* the cleanup on unmount, lines 191-199: stopAudio of the first render, then
\* close the context.  React drops the state updates of the unmounted component;
\* closing the context rejects the pending ctx.resume() calls and silences the
\* nodes that still play
unmount(w) ==
    LET w1 == stopAudio([w EXCEPT !.mounted = FALSE], FirstRender)
    IN IF w1.audioContextRef
       THEN [w1 EXCEPT !.audioContextRef = FALSE, !.ctxState = "closed",
                       !.waiters = <<>>,
                       !.sessions = [i \in Ids |->
                                       IF w1.sessions[i].status = "playing"
                                       THEN FreeNode ELSE w1.sessions[i]]]
       ELSE w1

\* source.onended, lines 80-83 and 118-121
onended(w) == [SetIsPlayingAudio(w, FALSE) EXCEPT !.sourceNodeRef = NoNode]

----------------------------------------------------------------------------
(* The effects *)

InFlightTotal(f) == f["A"] + f["B"]

\* the effect on [text], lines 146-158, up to the call of generateSpeech
TextEffect(w) ==
    IF w.text = ""
    THEN SetAudioBuffer(SetIsAudioPrepared(w, FALSE), None)
    ELSE LET w1 == SetIsAudioLoading(w, TRUE)
             w2 == SetIsAudioPrepared(w1, FALSE)
             w3 == SetIsPlayingAudio(w2, FALSE)
             w4 == SetIsAudioError(w3, FALSE)
         IN IF InFlightTotal(w.inflight) >= MaxInFlight THEN [w EXCEPT !.ovf = TRUE]
            ELSE [w4 EXCEPT !.startOffsetRef = 0, !.inflight[w.text] = @ + 1]

\* the catch and finally of the effect, lines 173-179
LoadFailed(w) ==
    SetIsAudioLoading(SetIsAudioPrepared(SetIsAudioError(w, TRUE), FALSE), FALSE)

\* lines 169-172 and 178: decode, commit the buffer
LoadContinue(w, t, payload) ==
    IF payload = "pcm"
    THEN LET w1 == SetAudioBuffer(w, t)
             w2 == IF w.mounted THEN [w1 EXCEPT !.newBuf = TRUE] ELSE w1
         IN SetIsAudioLoading(SetIsAudioPrepared(w2, TRUE), FALSE)
    ELSE LoadFailed(w)

\* lines 161-168: generateSpeech resolved; cs is the state a new context starts in
SynthResolved(w, t, payload, cs) ==
    LET w1 == [w EXCEPT !.inflight[t] = @ - 1]
        w2 == IF ~w1.audioContextRef
              THEN [w1 EXCEPT !.audioContextRef = TRUE, !.ctxState = cs, !.now = 0]
              ELSE w1
    IN IF w2.ctxState = "suspended"
       THEN Await(w2, [kind |-> "load", buf |-> t, rate |-> 0, loop |-> FALSE,
                       payload |-> payload])
       ELSE LoadContinue(w2, t, payload)

\* a hook without the effect that plays a prepared clip
PreparedEffectAbsent(old, w, sink) == w

\* the effect on [isAudioPrepared, audioBuffer], lines 184-188
PreparedEffect(old, w, sink) ==
    IF /\ w.mounted
       /\ (w.isAudioPrepared # old.isAudioPrepared \/ w.newBuf
           \/ w.audioBuffer # old.audioBuffer)
       /\ w.isAudioPrepared /\ w.audioBuffer # None /\ ~w.isPlayingAudio
       /\ w.audioContextRef
    THEN playFromStart(w, sink)
    ELSE w

\* the effect on [isRepeat, isPlayingAudio], lines 202-206
RepeatEffect(old, w) ==
    IF /\ w.mounted
       /\ (w.isRepeat # old.isRepeat \/ w.isPlayingAudio # old.isPlayingAudio)
       /\ w.sourceNodeRef # NoNode /\ w.isPlayingAudio
    THEN [w EXCEPT !.sessions[w.sourceNodeRef] = NodeSet(@, "loop", w.isRepeat)]
    ELSE w

\* the render that follows a handler, with the effects its changes trigger; sink
\* is what the audio sink does if the prepared effect starts to play
RenderWith(old, w, sink) == RepeatEffect(old, PreparedEffect(old, w, sink))

\* the render after a handler that leaves isAudioPrepared and audioBuffer as
\* they are or clears them: the prepared effect does not reach the sink
Render(old, w) == RenderWith(old, w, "ok")

\* the continuations that waited for ctx.resume(), run in the order of their calls
RECURSIVE Drain(_, _, _)
Drain(w, ws, sink) ==
    IF ws = <<>> THEN w
    ELSE LET k == Head(ws)
             cl == [isPlayingAudio |-> FALSE, audioBuffer |-> k.buf,
                    playbackRate |-> k.rate, isRepeat |-> k.loop]
             w1 == IF k.kind = "play" THEN PlayContinue(w, cl, sink)
                   ELSE IF k.kind = "resume" THEN ResumeContinue(w, cl, sink)
                   ELSE LoadContinue(w, k.buf, k.payload)
         IN Drain(w1, Tail(ws), sink)

\* one second of audio clock for a source node; a looping node wraps around
Advance(s) ==
    IF s.status # "playing" THEN s
    ELSE LET p == s.pos + s.rate
             d == 2 * Duration(s.buf)
         IN IF s.loop THEN [s EXCEPT !.pos = p % d]
            ELSE IF p >= d THEN FinishedNode
            ELSE [s EXCEPT !.pos = p]

----------------------------------------------------------------------------
(* The state machine *)

\* history: the call of the hook's interface that led to the state, with the
\* isPlayingAudio it found.  Only the calls in Traced are recorded; any other
\* call and every platform event leave no record
Event == [op |-> "-", playing |-> FALSE]
Traced == {"PlayFromStart", "PlayFromStartFailed"}
Called(op) == IF op \in Traced THEN [op |-> op, playing |-> isPlayingAudio] ELSE Event

\* the hook after its first render
HookInit ==
    /\ mounted = TRUE
    /\ text = ""
    /\ isPlayingAudio = FALSE
    /\ isAudioLoading = FALSE
    /\ isAudioPrepared = FALSE
    /\ audioBuffer = None
    /\ playbackRate = InitialRate
    /\ isRepeat = TRUE
    /\ isAudioError = FALSE
    /\ audioContextRef = FALSE
    /\ ctxState = "none"
    /\ sourceNodeRef = NoNode
    /\ startTimeRef = 0
    /\ startOffsetRef = 0
    /\ now = 0
    /\ sessions = [i \in Ids |-> FreeNode]
    /\ inflight = [t \in Texts |-> 0]
    /\ waiters = <<>>
    /\ last = Event

Undecoded == [failed |-> FALSE, frames |-> 0, channel |-> <<>>, pending |-> TRUE]

\* a decoder that has been handed nothing
DecoderIdle == pcm = <<>> /\ decoded = Undecoded

\* ImageUploader under an App that holds no image, App.tsx line 13
UploaderInit == images = <<>> /\ reading = {} /\ added = {} /\ removed = {}

Init == HookInit /\ DecoderIdle /\ UploaderInit

\* Load: the component renders the hook with a new text
LoadOf(t) ==
    /\ mounted
    /\ last' = Called("Load")
    /\ IF t = text THEN Commit(W)
       ELSE Commit(Render(W, TextEffect([W EXCEPT !.text = t])))

Load == \E t \in Texts \cup {""} : LoadOf(t)

\* generateSpeech resolves with a payload
SynthResolveWith(t, payload, cs, sink) ==
    /\ inflight[t] > 0
    /\ audioContextRef => cs = ctxState
    /\ last' = Event
    /\ Commit(RenderWith(W, SynthResolved(W, t, payload, cs), sink))

\* ... and the sink works if the prepared effect starts to play
SynthResolveOf(t, payload, cs) == SynthResolveWith(t, payload, cs, "ok")

\* generateSpeech resolves, the prepared effect starts to play and the sink fails
AutoplayFails ==
    \E t \in Texts, cs \in {"suspended", "running"} :
        /\ ~isPlayingAudio
        /\ IF audioContextRef THEN ctxState = "running" ELSE cs = "running"
        /\ SynthResolveWith(t, "pcm", cs, "fails")

SynthResolve ==
    \E t \in Texts, payload \in Payloads, cs \in {"suspended", "running"} :
        SynthResolveOf(t, payload, cs)

\* generateSpeech rejects: the remote call failed or returned no audio
SynthRejectOf(t) ==
    /\ inflight[t] > 0
    /\ last' = Event
    /\ Commit(Render(W, LoadFailed([W EXCEPT !.inflight[t] = @ - 1])))

SynthReject == \E t \in Texts : SynthRejectOf(t)

\* the sink is reached, and can fail, only past the guard and the await
ReachesSink == TransportGuard(W) /\ ctxState # "suspended"

PlayFromStartOf(sink) ==
    /\ mounted
    /\ sink = "fails" => ReachesSink
    /\ last' = Called(IF sink = "ok" THEN "PlayFromStart" ELSE "PlayFromStartFailed")
    /\ Commit(Render(W, playFromStart(W, sink)))

PlayFromStart == PlayFromStartOf("ok")
PlayFromStartFails == PlayFromStartOf("fails")

ResumeOf(sink) ==
    /\ mounted
    /\ sink = "fails" => ReachesSink
    /\ last' = Called("Resume")
    /\ Commit(Render(W, resumeAudio(W, sink)))

Resume == ResumeOf("ok")
ResumeFails == ResumeOf("fails")

Stop ==
    /\ mounted
    /\ last' = Called("Stop")
    /\ Commit(Render(W, stopAudio(W, Closure(W))))

SetSpeedOf(rate) ==
    /\ mounted
    /\ last' = Called("SetSpeed")
    /\ Commit(Render(W, setSpeed(W, rate)))

\* the speed buttons of the view, which pass a rate in [0.5, 1.5]
SetSpeed == \E rate \in Rates : SetSpeedOf(rate)

\* any caller of the hook's setSpeed
SetSpeedAny == \E rate \in AllRates : SetSpeedOf(rate)

SetRepeatOf(flag) ==
    /\ mounted
    /\ last' = Called("SetRepeat")
    /\ Commit(Render(W, [W EXCEPT !.isRepeat = flag]))

SetRepeat == \E flag \in BOOLEAN : SetRepeatOf(flag)

\* the `ended` event of a halted node is delivered
Halted(ss) == {i \in Ids : ss[i].status \in {"stopped", "finished"}}

SessionEndedOf(id) ==
    /\ id \in Halted(sessions)
    /\ last' = Event
    /\ Commit(Render(W, onended([W EXCEPT !.sessions[id] = FreeNode])))

SessionEnded == \E id \in Ids : SessionEndedOf(id)

\* the component that uses the hook unmounts
Unmount ==
    /\ mounted
    /\ last' = Called("Unmount")
    /\ Commit(unmount(W))

\* the platform lets the context run: every pending ctx.resume() resolves
CtxResumedWith(sink) ==
    /\ ctxState = "suspended"
    /\ waiters # <<>>
    /\ last' = Event
    /\ Commit(RenderWith(W, Drain([W EXCEPT !.ctxState = "running",
                                           !.waiters = <<>>], waiters, sink),
                         sink))

CtxResumed == CtxResumedWith("ok")
\* ... and the sink fails when the continuations reach it
CtxResumedSinkFails == CtxResumedWith("fails")

\* the platform suspends the running context
CtxSuspended ==
    /\ ctxState = "running"
    /\ last' = Event
    /\ Commit([W EXCEPT !.ctxState = "suspended"])

\* the audio clock advances by one second.  The hook reads the clock only as the
\* time since a node started, so seconds in which no node plays are left out
Tick ==
    /\ ctxState = "running"
    /\ Playing(sessions) # {}
    /\ now < MaxTime
    /\ last' = Event
    /\ Commit([W EXCEPT !.now = now + 1,
                        !.sessions = [i \in Ids |-> Advance(sessions[i])]])

Next ==
    \/ Load
    \/ SynthResolve
    \/ SynthReject
    \/ PlayFromStart
    \/ Resume
    \/ Stop
    \/ SetSpeed
    \/ SetRepeat
    \/ SessionEnded
    \/ CtxResumed
    \/ Tick

Spec == Init /\ [][Next]_vars

\* the controller with its teardown, at the initial speed and repeat setting
NextLifecycle ==
    \/ Load
    \/ SynthResolve
    \/ SynthReject
    \/ PlayFromStart
    \/ Resume
    \/ Stop
    \/ SessionEnded
    \/ CtxResumed
    \/ Tick
    \/ Unmount

SpecLifecycle == Init /\ [][NextLifecycle]_vars

\* the controller on an audio sink that can fail, at the initial speed and
\* repeat setting
NextSink ==
    \/ Load
    \/ SynthResolve
    \/ SynthReject
    \/ AutoplayFails
    \/ PlayFromStart
    \/ PlayFromStartFails
    \/ Resume
    \/ ResumeFails
    \/ Stop
    \/ SessionEnded
    \/ CtxResumed
    \/ CtxResumedSinkFails
    \/ Tick

SpecSink == Init /\ [][NextSink]_vars

\* the controller of one text on a platform that can suspend the context and
\* need not let it run again.  The event loop delivers what is queued: a
\* synthesis call settles and an `ended` event is dispatched; nothing obliges
\* the platform to resolve ctx.resume()
NextPending ==
    \/ LoadOf("A")
    \/ SynthResolve
    \/ PlayFromStart
    \/ Resume
    \/ Stop
    \/ SetSpeed
    \/ SessionEnded
    \/ CtxResumed
    \/ CtxSuspended
    \/ Tick

\* the controller of one text with callers of setSpeed that pass any rate
NextSpeed ==
    \/ LoadOf("A")
    \/ SynthResolve
    \/ PlayFromStart
    \/ Resume
    \/ Stop
    \/ SetSpeedAny
    \/ SessionEnded
    \/ CtxResumed
    \/ Tick

SpecSpeed == Init /\ [][NextSpeed]_vars

SpecPending ==
    /\ Init
    /\ [][NextPending]_vars
    /\ WF_vars(SynthResolve)
    /\ WF_vars(SessionEnded)

----------------------------------------------------------------------------
(* The controller states of the specification, read off the hook's flags *)

\* everything but the history
hookVars == <<mounted, text, isPlayingAudio, isAudioLoading, isAudioPrepared,
              audioBuffer, playbackRate, isRepeat, isAudioError, audioContextRef,
              ctxState, sourceNodeRef, startTimeRef, startOffsetRef, now,
              sessions, inflight, waiters>>

InError == isAudioError
InLoading == isAudioLoading
InPlaying == isPlayingAudio
InReady == /\ audioBuffer # None /\ isAudioPrepared
           /\ ~isPlayingAudio /\ ~isAudioLoading /\ ~isAudioError

CtxStates == {"suspended", "running"}

----------------------------------------------------------------------------
(* C1: at most one PlaybackSession (a started source node that has not been    *)
(* stopped and has not ended) exists in every reachable state.                 *)
AtMostOneSession == Cardinality(Playing(sessions)) <= 1

(* C2: the completion, success or failure, of a synthesis request whose text   *)
(* is no longer the current source text is discarded: it commits no buffer,    *)
(* sets neither Ready nor Error and starts no playback.                        *)
StaleCompletion(t) ==
    /\ t # text
    /\ \/ \E payload \in Payloads, cs \in CtxStates : SynthResolveOf(t, payload, cs)
       \/ SynthRejectOf(t)

StaleCompletionDiscarded ==
    [][\A t \in Texts :
          StaleCompletion(t) =>
              UNCHANGED <<audioBuffer, isAudioPrepared, isAudioError,
                          isAudioLoading, isPlayingAudio, sessions, sourceNodeRef>>]_vars

(* C3: a Load issued while a PlaybackSession is active stops and releases that *)
(* session before it proceeds: right after the Load no session plays.          *)
LoadStopsActiveSession ==
    [][\A t \in Texts \cup {""} :
          LoadOf(t) /\ t # text /\ Playing(sessions) # {} =>
              Playing(sessions') = {} /\ sourceNodeRef' = NoNode]_vars

(* C4: when a Load fails (the synthesis call rejects or the payload does not   *)
(* decode) the controller is in Error and holds no audio buffer.               *)
LoadFailure ==
    \/ SynthReject
    \/ \E t \in Texts, cs \in CtxStates :
           SynthResolveOf(t, "malformed", cs) /\ waiters' = waiters

FailedLoadLeavesNoBuffer ==
    [][LoadFailure => isAudioError' /\ audioBuffer' = None]_vars

(* C5: while the controller is Loading, PlayFromStart and Resume are rejected: *)
(* they create no session and change nothing.                                  *)
TransportRejectedWhileLoading ==
    [][(PlayFromStart \/ Resume) /\ InLoading => UNCHANGED hookVars]_vars

(* C6: in the Error state PlayFromStart is a no-op: no session is created and  *)
(* the state stays as it was.                                                  *)
PlayFromStartNoOpInError ==
    [][PlayFromStart /\ InError => UNCHANGED hookVars]_vars

(* C7: when the session-ended callback of the active, non-looping session that *)
(* played to the end of the clip is delivered, PlaybackPosition becomes the    *)
(* clip duration, the session is released and the controller is not playing.   *)
NaturalEnd(id) ==
    /\ SessionEndedOf(id)
    /\ sessions[id].status = "finished"
    /\ sourceNodeRef = id
    /\ audioBuffer # None

NaturalEndSetsPositionToDuration ==
    [][\A id \in Ids :
          NaturalEnd(id) =>
              /\ startOffsetRef' = Duration(audioBuffer)
              /\ sourceNodeRef' = NoNode
              /\ ~isPlayingAudio']_vars

(* C8: Stop while Playing sets PlaybackPosition to                             *)
(* min(priorPosition + elapsed, duration), halts and releases the session and  *)
(* leaves the controller in Ready; Stop when not Playing changes nothing.      *)
StopWhilePlaying ==
    /\ audioBuffer # None
    /\ startOffsetRef' =
           Min(startOffsetRef + (now - startTimeRef), Duration(audioBuffer))
    /\ Playing(sessions') = Playing(sessions) \ {sourceNodeRef}
    /\ sourceNodeRef' = NoNode
    /\ InReady'

StopContract ==
    [][Stop => IF InPlaying THEN StopWhilePlaying ELSE UNCHANGED hookVars]_vars

(* C9: Resume in Ready creates a new session whose buffer offset is the        *)
(* current PlaybackPosition clamped to [0, duration] and moves to Playing;     *)
(* Resume in any other state is a no-op.                                       *)
ResumeInReady ==
    /\ isPlayingAudio'
    /\ sourceNodeRef' \in Playing(sessions') \ Playing(sessions)
    /\ sessions'[sourceNodeRef'].pos =
           2 * Min(startOffsetRef, Duration(audioBuffer))

ResumeContract ==
    [][Resume => IF InReady THEN ResumeInReady ELSE UNCHANGED hookVars]_vars

(* C10, as the specification states it: PlayFromStart issued while Playing     *)
(* stops the existing session, resets PlaybackPosition to 0 and starts a new   *)
(* session at buffer offset 0 with the configured rate and loop flag.          *)
PlayingSession ==
    /\ isPlayingAudio
    /\ audioBuffer # None
    /\ sourceNodeRef \in Playing(sessions)

RestartedFromStart ==
    /\ sourceNodeRef \notin Playing(sessions')
    /\ sourceNodeRef' # sourceNodeRef
    /\ startOffsetRef' = 0
    /\ isPlayingAudio'
    /\ sourceNodeRef' \in Playing(sessions')
    /\ sessions'[sourceNodeRef'] =
           [status |-> "playing", buf |-> audioBuffer, pos |-> 0,
            rate |-> playbackRate, loop |-> isRepeat]
    /\ startTimeRef' = now

PlayFromStartRestartsWhilePlaying ==
    [][PlayFromStart /\ PlayingSession => RestartedFromStart]_vars

(* C10, amended: PlayFromStart issued while Playing is a no-op: the session    *)
(* that plays keeps playing and the position, the flags and the references     *)
(* stay as they are.                                                           *)
PlayFromStartNoOpWhilePlaying ==
    [][PlayFromStart /\ InPlaying => UNCHANGED hookVars]_vars

\* PlayFromStart has been issued while a session was playing
PlayFromStartIssuedWhilePlaying ==
    /\ last = [op |-> "PlayFromStart", playing |-> TRUE]
    /\ PlayingSession

(* C11: whenever a buffer is held, the playback position lies within it:       *)
(* 0 <= PlaybackPosition <= duration of the currently held buffer.             *)
PositionWithinClip ==
    audioBuffer # None =>
        0 <= startOffsetRef /\ startOffsetRef <= Duration(audioBuffer)

(* C12, as the specification states it: a successful Load of the current text  *)
(* leaves the controller in Ready with PlaybackPosition 0, and the controller   *)
(* starts to play only in a PlayFromStart or Resume step.                       *)
LoadSucceeds(t) ==
    \E cs \in CtxStates : SynthResolveOf(t, "pcm", cs) /\ waiters' = waiters

Autoplayed(t) ==
    /\ startOffsetRef' = 0
    /\ sourceNodeRef' \in Playing(sessions') \ Playing(sessions)
    /\ sessions'[sourceNodeRef'] =
           [status |-> "playing", buf |-> t, pos |-> 0,
            rate |-> playbackRate, loop |-> isRepeat]

InIdle ==
    /\ audioBuffer = None /\ ~isAudioPrepared
    /\ ~isAudioLoading /\ ~isPlayingAudio /\ ~isAudioError

LoadEmptyGivesIdle ==
    [][LoadOf("") => InIdle' /\ inflight' = inflight]_vars

(* C14: in Error every transport command leaves the controller in Error, and   *)
(* the controller leaves Error exactly in a Load step: a Load of a non-empty    *)
(* text, the text that failed included (a retry), starts a new synthesis        *)
(* attempt and moves the controller to Loading.                                 *)
TransportCommand == PlayFromStart \/ Resume \/ Stop \/ SetSpeed \/ SetRepeat

ErrorStickyUntilLoad ==
    [][InError =>
          /\ TransportCommand => InError'
          /\ \A t \in Texts :
                 LoadOf(t) => /\ ~InError' /\ InLoading'
                              /\ inflight'[t] = inflight[t] + 1
          /\ ~InError' => Load]_vars

(* C15: when the audio sink fails inside PlayFromStart or Resume issued in     *)
(* Ready, the controller remains in Ready with its buffer intact, holds no      *)
(* session and creates none, does not enter Error, and a PlayFromStart issued   *)
(* next starts playback at offset 0.                                            *)
RemainsReady ==
    /\ InReady'
    /\ audioBuffer' = audioBuffer
    /\ audioContextRef'
    /\ sourceNodeRef' = NoNode
    /\ Playing(sessions') \subseteq Playing(sessions)

SinkFailureKeepsReady ==
    [][/\ (PlayFromStartFails \/ ResumeFails) /\ InReady => RemainsReady
       /\ last.op = "PlayFromStartFailed" /\ InReady /\ PlayFromStart =>
              /\ isPlayingAudio' /\ startOffsetRef' = 0
              /\ sourceNodeRef' \in Playing(sessions') \ Playing(sessions)
              /\ sessions'[sourceNodeRef'].buf = audioBuffer
              /\ sessions'[sourceNodeRef'].pos = 0]_vars

\* the sink failed in a PlayFromStart, and the controller is in Ready
SinkHasFailedInReady ==
    /\ last.op = "PlayFromStartFailed"
    /\ InReady
    /\ sourceNodeRef = NoNode

(* C16: every PlayFromStart or Resume invocation eventually completes: an      *)
(* invocation that waits for the activation of the audio context does not       *)
(* stay pending for ever, also when the platform never activates the context.   *)
PendingInvocation ==
    \E i \in DOMAIN waiters : waiters[i].kind \in {"play", "resume"}

InvocationCompletes == PendingInvocation ~> ~PendingInvocation

(* C17: SetSpeed(rate) clamps the rate to [0.5, 1.5] for every input: the rate *)
(* stored in the controller and applied to the active session is               *)
(* max(0.5, min(1.5, rate)).                                                   *)
Max(a, b) == IF a > b THEN a ELSE b

Clamped(rate) == Max(MinRate, Min(MaxRate, rate))

SetSpeedClamps ==
    [][\A rate \in AllRates :
          SetSpeedOf(rate) =>
              /\ playbackRate' = Clamped(rate)
              /\ sourceNodeRef \in Playing(sessions) =>
                     sessions'[sourceNodeRef].rate = Clamped(rate)]_vars

(* C18: SetSpeed(rate) stores the rate and applies it at once to the session   *)
(* the controller holds, which is neither stopped nor recreated: the playing    *)
(* flag and PlaybackPosition are unchanged; and every session created           *)
(* afterwards starts with the stored rate.                                      *)
SpeedApplied(rate) ==
    /\ playbackRate' = rate
    /\ UNCHANGED <<isPlayingAudio, startOffsetRef, startTimeRef, sourceNodeRef>>
    /\ Playing(sessions') = Playing(sessions)
    /\ sourceNodeRef \in Playing(sessions) =>
           sessions'[sourceNodeRef] = [sessions[sourceNodeRef] EXCEPT !.rate = rate]

NewSessions == Playing(sessions') \ Playing(sessions)

SetSpeedStoresAndApplies ==
    [][/\ \A rate \in Rates : SetSpeedOf(rate) => SpeedApplied(rate)
       /\ \A i \in NewSessions : sessions'[i].rate = playbackRate']_vars

(* C19: SetRepeat(flag) stores the flag and, when the controller holds an      *)
(* active session, sets that session's loop flag to it without stopping or      *)
(* restarting the session; and whenever the controller is Playing, the loop     *)
(* flag of its session equals the stored repeat flag.                           *)
RepeatApplied(flag) ==
    /\ isRepeat' = flag
    /\ UNCHANGED <<isPlayingAudio, startOffsetRef, startTimeRef, sourceNodeRef>>
    /\ Playing(sessions') = Playing(sessions)
    /\ sourceNodeRef \in Playing(sessions) =>
           sessions'[sourceNodeRef] = [sessions[sourceNodeRef] EXCEPT !.loop = flag]

SetRepeatStoresAndApplies ==
    [][/\ \A flag \in BOOLEAN : SetRepeatOf(flag) => RepeatApplied(flag)
       /\ PlayingSession' => sessions'[sourceNodeRef'].loop = isRepeat']_vars

(* C20: the audio context is created on first use and not before, the          *)
(* controller holds at most one, and after teardown (unmount) it holds no       *)
(* audio context and no session, also when a Load that was in flight at         *)
(* teardown completes afterwards.                                               *)
ContextReleasedAfterTeardown ==
    /\ audioContextRef <=> ctxState \in {"suspended", "running"}
    /\ audioBuffer # None => audioContextRef \/ ~mounted
    /\ ~mounted =>
           /\ ~audioContextRef
           /\ sourceNodeRef = NoNode
           /\ Playing(sessions) = {}

(* C21: when a text has been loaded twice while its first request was in       *)
(* flight, exactly one buffer is committed for it: once a response for the      *)
(* current text has been committed, a further response for the same text is     *)
(* discarded and changes neither the buffer, the flags nor the sessions.        *)
CommittedFor(t) ==
    /\ text = t /\ audioBuffer = t
    /\ isAudioPrepared /\ ~isAudioLoading /\ ~isAudioError

SecondResponseDiscarded ==
    [][\A t \in Texts :
          CommittedFor(t)
          /\ (\E cs \in CtxStates : SynthResolveOf(t, "pcm", cs)) =>
              UNCHANGED <<audioBuffer, isAudioPrepared, isAudioLoading,
                          isAudioError, isPlayingAudio, sessions, sourceNodeRef,
                          startOffsetRef, startTimeRef>>]_vars

----------------------------------------------------------------------------
(* The synthesis service, src/services/geminiService.ts *)

\* what the remote call does: it errors, answers without an audio part, answers
\* with an empty audio string, or answers with audio data
RemoteFailures == {"error", "noAudio", "empty"}
Responses == RemoteFailures \cup Payloads

Undefined == "undefined"

\* response.candidates?.[0]?.content?.parts?.[0]?.inlineData?.data, line 222
InlineData(resp) ==
    IF resp = "noAudio" THEN Undefined ELSE IF resp = "empty" THEN "" ELSE resp

\* a synthesis call that hands on whatever the response holds
generateSpeechUnchecked(resp) ==
    IF resp = "error" THEN [rejected |-> TRUE, data |-> Undefined]
    ELSE [rejected |-> FALSE, data |-> InlineData(resp)]

\* generateSpeech, lines 204-233: a failed call is rethrown, a missing or empty
\* audio string is thrown as "No audio data returned from AI"
generateSpeech(resp) ==
    IF resp = "error" THEN [rejected |-> TRUE, data |-> Undefined]
    ELSE LET audioData == InlineData(resp)
         IN IF audioData \in {Undefined, ""}
            THEN [rejected |-> TRUE, data |-> Undefined]
            ELSE [rejected |-> FALSE, data |-> audioData]

\* the remote call of a synthesis in flight answers; the hook goes on after its
\* `await generateSpeech(text)`, in the try block or in the catch
SynthRespondOf(t, resp) ==
    LET out == generateSpeech(resp) IN
    IF out.rejected
    THEN /\ inflight[t] > 0
         /\ last' = [op |-> "SynthesisFailed", playing |-> isPlayingAudio]
         /\ Commit(Render(W, LoadFailed([W EXCEPT !.inflight[t] = @ - 1])))
    ELSE \E cs \in {"suspended", "running"} : SynthResolveOf(t, out.data, cs)

SynthRespond == \E t \in Texts, resp \in Responses : SynthRespondOf(t, resp)

\* the hook with the remote call's answers as its input, at the initial speed
\* and loop flag
NextSynthesis ==
    \/ Load
    \/ SynthRespond
    \/ PlayFromStart
    \/ Resume
    \/ Stop
    \/ SessionEnded
    \/ CtxResumed
    \/ Tick

SpecSynthesis == Init /\ [][NextSynthesis]_vars

(* C22: the synthesis call fails whenever the remote call errors or answers     *)
(* with no or an empty audio payload, and every such failure leaves the hook     *)
(* with the error flag set, the loading flag cleared and the prepared flag       *)
(* false.                                                                        *)
SynthesisFailureGivesError ==
    [][\A t \in Texts, resp \in RemoteFailures :
          SynthRespondOf(t, resp) =>
              /\ generateSpeech(resp).rejected
              /\ InError' /\ ~isAudioLoading' /\ ~isAudioPrepared']_vars

SynthesisHasFailed ==
    /\ last.op = "SynthesisFailed"
    /\ InError /\ ~isAudioLoading /\ ~isAudioPrepared

----------------------------------------------------------------------------
(* Decoding, src/hooks/useSpeechPlayer.ts lines 30-43 *)

MaxPcmLength == 3   \* the longest byte sequence decoded

SampleRate == 24000     \* const sampleRate, line 31
SampleScale == 32768    \* the divisor of line 40

\* byte values: the least, the greatest and those around the sign bit
Bytes == {0, 1, 127, 128, 255}
ByteSeqs == UNION {[1..n -> Bytes] : n \in 0..MaxPcmLength}

\* pcm[k] of a Uint8Array, k counted from 0: undefined past the end
NoByte == -1
At(bytes, k) == IF k < Len(bytes) THEN bytes[k + 1] ELSE NoByte

\* ToInt32 of an operand of << or |: undefined counts as 0
ToInt32(x) == IF x = NoByte THEN 0 ELSE x

\* x << 8; a byte shifted by 8 stays far below 2^31, where << would wrap
ShiftLeft8(x) == x * 256

\* a | b on non-negative operands, bit by bit
RECURSIVE BitOr(_, _)
BitOr(a, b) ==
    IF a = 0 THEN b
    ELSE IF b = 0 THEN a
    ELSE (IF a % 2 = 1 \/ b % 2 = 1 THEN 1 ELSE 0) + 2 * BitOr(a \div 2, b \div 2)

\* a decoder that leaves the 16-bit value unsigned
ToSigned16Absent(val) == val

\* line 39: if (val >= 0x8000) val = val - 0x10000
ToSigned16(val) == IF val >= 32768 THEN val - 65536 ELSE val

\* val / 32768 as a Float32, line 40: kept as the fraction num/den, which a
\* Float32 holds exactly for a 16-bit numerator
Sample(val) == [num |-> val, den |-> SampleScale]

\* channel[i] = v: a write past the end of a Float32Array is dropped
Store(channel, i, v) == IF i < Len(channel) THEN [channel EXCEPT ![i + 1] = v] ELSE channel

\* the loop of lines 35-41: it runs while i < pcm.length / 2, and the quotient
\* is not an integer when the length is odd
RECURSIVE DecodeLoop(_, _, _)
DecodeLoop(bytes, channel, i) ==
    IF 2 * i >= Len(bytes) THEN channel
    ELSE LET lo == At(bytes, i * 2)
             hi == At(bytes, i * 2 + 1)
             val == ToSigned16(BitOr(ShiftLeft8(ToInt32(hi)), ToInt32(lo)))
         IN DecodeLoop(bytes, Store(channel, i, Sample(val)), i + 1)

DecodeFailed == [failed |-> TRUE, frames |-> 0, channel |-> <<>>]

\* ctx.createBuffer(1, samples, sampleRate), line 33: the length is converted to
\* an unsigned long, which drops the fraction, and a length of 0 frames throws
\* NotSupportedError; a new buffer holds silence
CreateBuffer(bytes) ==
    LET frames == Len(bytes) \div 2
    IN IF frames = 0 THEN DecodeFailed
       ELSE [failed |-> FALSE, frames |-> frames,
             channel |-> [k \in 1..frames |-> Sample(0)]]

\* pcmToAudioBuffer, lines 30-43
pcmToAudioBuffer(bytes) ==
    LET b == CreateBuffer(bytes)
    IN IF b.failed THEN b
       ELSE [b EXCEPT !.channel = DecodeLoop(bytes, b.channel, 0)]

\* audioBuffer.duration in seconds, as the fraction num/den
BufferDuration(b) == [num |-> b.frames, den |-> SampleRate]

\* the decoder is handed the bytes and runs
Decode ==
    /\ decoded = Undecoded
    /\ decoded' = pcmToAudioBuffer(pcm)
    /\ UNCHANGED <<hookVars, last, pcm, uploaderVars>>

\* the decoder on every byte sequence up to MaxPcmLength, beside a hook and an
\* uploader that stay as constructed
InitDecode == HookInit /\ UploaderInit /\ pcm \in ByteSeqs /\ decoded = Undecoded
NextDecode == Decode
SpecDecode == InitDecode /\ [][NextDecode]_vars

HasDecoded == decoded # Undecoded

(* C23: for every byte sequence of even length, decoding gives for every index  *)
(* i the sample signed16(byte[2i+1] * 256 + byte[2i]) / 32768, where signed16    *)
(* subtracts 65536 from a value of 32768 or more, and every sample lies in       *)
(* [-1.0, 1.0).                                                                  *)
Signed16(v) == IF v >= 32768 THEN v - 65536 ELSE v

WithoutLastByte(bytes) == SubSeq(bytes, 1, Len(bytes) - 1)

FramesAreHalfTheBytes ==
    HasDecoded =>
        /\ ~decoded.failed
        /\ decoded.frames = Len(pcm) \div 2
        /\ Len(decoded.channel) = Len(pcm) \div 2
        /\ BufferDuration(decoded) = [num |-> Len(pcm) \div 2, den |-> 24000]
        /\ Len(pcm) % 2 = 1 =>
               decoded.channel = pcmToAudioBuffer(WithoutLastByte(pcm)).channel

(* C25: the playback position becomes 0 from a non-zero value only through      *)
(* PlayFromStart or through a Load of a new source text, and Resume, Stop,       *)
(* SetSpeed, SetRepeat and the end of a session never decrease it.               *)
LoadsNewText == \E t \in Texts \cup {""} : t # text /\ LoadOf(t)

LaterSessionPlays(id) ==
    /\ sessions[id].status = "stopped"
    /\ sourceNodeRef \notin {NoNode, id}
    /\ sessions[sourceNodeRef].status = "playing"
    /\ isPlayingAudio

StaleEndedLeavesLaterSession ==
    [][\A id \in Ids :
          LaterSessionPlays(id) /\ SessionEndedOf(id) =>
              isPlayingAudio' /\ sourceNodeRef' = sourceNodeRef]_vars

(* C27: the loading flag is set in every state in which the synthesis request   *)
(* for the current source text is in flight; the completion of an earlier,       *)
(* superseded request does not clear it.                                         *)
LoadingWhileRequestInFlight ==
    (text \in Texts /\ inflight[text] > 0) => isAudioLoading

\* the hook under a user who never asks for playback: no PlayFromStart and no
\* Resume is ever called
NextAutoplay ==
    \/ Load
    \/ SynthResolve
    \/ SynthReject
    \/ Stop
    \/ SetSpeed
    \/ SetRepeat
    \/ SessionEnded
    \/ CtxResumed
    \/ Tick

SpecAutoplay == Init /\ [][NextAutoplay]_vars

(* C28: when a load completes successfully (buffer committed, prepared flag     *)
(* set) while nothing is marked playing and an audio context exists, the hook    *)
(* itself starts playback: in the same step, without any command, a session at  *)
(* buffer offset 0 with the stored rate and loop flag is created and            *)
(* referenced, and the hook reports playing.                                     *)
LoadCompletes(t) ==
    /\ inflight'[t] < inflight[t]
    /\ audioBuffer' = t /\ isAudioPrepared' /\ audioContextRef'
    /\ LoadSucceeds(t)

AutoplayOnLoad ==
    [][\A t \in Texts :
          ~isPlayingAudio /\ LoadCompletes(t) =>
              /\ last' = Event
              /\ isPlayingAudio'
              /\ sourceNodeRef' \in Playing(sessions') \ Playing(sessions)
              /\ sessions'[sourceNodeRef'] =
                     [status |-> "playing", buf |-> t, pos |-> 0,
                      rate |-> playbackRate', loop |-> isRepeat']
              /\ playbackRate' = playbackRate /\ isRepeat' = isRepeat
              /\ startOffsetRef' = 0 /\ startTimeRef' = now']_vars

\* a session plays from offset 0 at a speed and loop flag the user has changed,
\* and no command has asked for playback
AutoplayedWithStoredSettings ==
    /\ isPlayingAudio /\ isAudioPrepared /\ audioContextRef
    /\ sourceNodeRef \in Playing(sessions)
    /\ sessions[sourceNodeRef] =
           [status |-> "playing", buf |-> audioBuffer, pos |-> 0,
            rate |-> playbackRate, loop |-> isRepeat]
    /\ playbackRate # InitialRate /\ ~isRepeat
    /\ startOffsetRef = 0 /\ startTimeRef = now

(* C29: for every playback rate in [0.5, 1.5], rates changed by SetSpeed during *)
(* the session included, the position that Stop stores for a non-looping         *)
(* session equals the buffer offset at which the audio halted: the start offset  *)
(* plus the elapsed time weighted by the rate, capped at the duration.           *)
HaltsNonLooping ==
    /\ Stop
    /\ isPlayingAudio
    /\ sourceNodeRef \in Playing(sessions)
    /\ ~sessions[sourceNodeRef].loop
    /\ sessions[sourceNodeRef].buf = audioBuffer
    /\ sessions[sourceNodeRef].rate \in MinRate..MaxRate
    \* the session has not reached the end of its clip at any rate in the
    \* range, so it has played straight on whatever its loop flag was before
    /\ 2 * startOffsetRef + MaxRate * (now - startTimeRef) < 2 * Duration(audioBuffer)

StopStoresHaltOffset ==
    [][HaltsNonLooping =>
          2 * startOffsetRef' =
              Min(sessions[sourceNodeRef].pos, 2 * Duration(audioBuffer))]_vars

----------------------------------------------------------------------------
(* The image list, src/components/ImageUploader.tsx and src/App.tsx *)

MaxReading == 2     \* processFiles calls suspended at their await at once

\* the files a user can pick; an image is named after the file it was read from
Files == {"f1", "f2", "f3"}

Range(s) == {s[i] : i \in DOMAIN s}

\* the file lists handed to processFiles: none, one file or two
FileLists == {<<>>} \cup {<<f>> : f \in Files}
                 \cup {<<f, g>> : f \in Files, g \in Files}

\* files picked before; a file is picked once
Picked == added \cup UNION {Range(b.files) : b \in reading}

\* images.filter(img => img.id !== id), line 293
Without(s, id) == SelectSeq(s, LAMBDA x : x # id)

\* processFiles up to its await, lines 252-279: nothing happens for an empty
\* list; otherwise the reads start, and the call waits with the `images` prop of
\* the render that created it
ProcessFilesOf(fs) ==
    /\ Cardinality(Range(fs)) = Len(fs)
    /\ Range(fs) \cap Picked = {}
    /\ IF fs = <<>> THEN UNCHANGED reading
       ELSE /\ Cardinality(reading) < MaxReading
            /\ reading' = reading \cup {[images |-> images, files |-> fs]}
    /\ UNCHANGED <<images, added, removed>>
    /\ UNCHANGED <<hookVars, last, decoderVars>>

ProcessFiles == \E fs \in FileLists : ProcessFilesOf(fs)

\* every file of a call is read: Promise.all resolves and the call goes on at
\* line 282 with onImagesChange([...images, ...newImages]), which App passes to
\* setImages (App.tsx line 203).  A read that fails never settles its promise
\* (no reader.onerror), and its call stays suspended
ReadsDoneOf(b) ==
    /\ b \in reading
    /\ images' = b.images \o b.files
    /\ reading' = reading \ {b}
    /\ added' = added \cup Range(b.files)
    /\ UNCHANGED removed
    /\ UNCHANGED <<hookVars, last, decoderVars>>

ReadsDone == \E b \in reading : ReadsDoneOf(b)

\* handleRemove, lines 292-294, from the remove button of a listed image
HandleRemoveOf(id) ==
    /\ id \in Range(images)
    /\ images' = Without(images, id)
    /\ removed' = removed \cup {id}
    /\ UNCHANGED <<reading, added>>
    /\ UNCHANGED <<hookVars, last, decoderVars>>

HandleRemove == \E id \in Files : HandleRemoveOf(id)

\* the uploader beside a hook and a decoder that stay as constructed
NextUploader ==
    \/ ProcessFiles
    \/ ReadsDone
    \/ HandleRemove

SpecUploader == Init /\ [][NextUploader]_vars

(* C30: every image whose file was read is in the image list until it is        *)
(* removed, and a removed image is not in the list: a processFiles call that     *)
(* finishes after another call or after a handleRemove hands on a list that      *)
(* still holds the other call's images and does not hold the removed image.      *)
ReadImagesStayUntilRemoved ==
    /\ \A f \in added \ removed : f \in Range(images)
    /\ \A f \in removed : f \notin Range(images)

====
